---- MODULE Spec2Model ----
(***************************************************************************)
(* Model of test-oauth-server/oauth_server.py: a dummy OAuth 2.0           *)
(* authorization server with the endpoints /register,                      *)
(* /.well-known/oauth-authorization-server, /authorize and /token.         *)
(*                                                                         *)
(* Python strings are sequences of code points, so that prefix tests,      *)
(* substring tests, base64 and UTF-8 decoding, splitting and URL quoting   *)
(* are computed as the code computes them.  Each string literal carries    *)
(* its text in a comment.  Python's None is the value None below.          *)
(***************************************************************************)
EXTENDS Integers, Sequences, FiniteSets, TLC

VARIABLES
    request,        \* the HTTP request being served, or NoRequest
    response,       \* the response the handler produced for it, or NoResponse
    now,            \* datetime.utcnow().timestamp(), in seconds
    legacy_json,    \* the installed Flask predates 2.1 (see get_json)
    called,         \* history: the endpoints among /register, /authorize served so far
    first_register  \* history: the first response /register gave, or NoResponse

vars == <<request, response, now, legacy_json, called, first_register>>

\* ------------------------------------------------------------------------
\* Bounds of the model
\* ------------------------------------------------------------------------
MaxClock == 1
MaxStateLen == 1

\* ------------------------------------------------------------------------
\* Python values
\* ------------------------------------------------------------------------
None == <<-1>>

\* bool(x) for an Optional[str]: None and '' are falsy
Truthy(s) == s # None /\ s # <<>>

\* a or b
Or(a, b) == IF Truthy(a) THEN a ELSE b

\* F applied to the value of x, with x computed once
Let(x, F(_)) == CHOOSE y \in {F(v) : v \in {x}} : TRUE

\* the outcome of an expression that may raise
Ok(v) == [raised |-> FALSE, value |-> v, exc |-> "none"]
Raise(e) == [raised |-> TRUE, value |-> None, exc |-> e]

\* str.startswith, str.endswith, `p in s`
StartsWith(s, p) == Len(s) >= Len(p) /\ SubSeq(s, 1, Len(p)) = p
EndsWith(s, p) == Len(s) >= Len(p) /\ SubSeq(s, Len(s) - Len(p) + 1, Len(s)) = p
Contains(s, p) == \E i \in 1..(Len(s) - Len(p) + 1) : SubSeq(s, i, i + Len(p) - 1) = p

\* str.find(c) + 1: the position of the first c in s, 0 when there is none
Find(s, c) ==
    IF \E i \in 1..Len(s) : s[i] = c
    THEN CHOOSE i \in 1..Len(s) : s[i] = c /\ \A j \in 1..(i - 1) : s[j] # c
    ELSE 0

\* dict.get(k) and dict.get(k, default) on a dict given as a function
Get(d, k) == IF k \in DOMAIN d THEN d[k] ELSE None
GetDefault(d, k, default) == IF k \in DOMAIN d THEN d[k] ELSE default

EmptyDict == [k \in {} |-> None]

\* ------------------------------------------------------------------------
\* base64.b64decode(s) and bytes.decode('utf-8')
\* ------------------------------------------------------------------------
\* The value of a character of the base64 alphabet, -1 for any other
\* character: A-Z, a-z, 0-9, '+', '/'.
B64Index(c) ==
    IF c >= 65 /\ c <= 90 THEN c - 65
    ELSE IF c >= 97 /\ c <= 122 THEN c - 71
    ELSE IF c >= 48 /\ c <= 57 THEN c + 4
    ELSE IF c = 43 THEN 62
    ELSE IF c = 47 THEN 63
    ELSE -1

\* binascii.a2b_base64 in its default, non-strict mode.  Its loop keeps
\* quad_pos (the data characters read so far, modulo 4) and pads (the '='
\* read since the last data character while quad_pos >= 2): a character
\* outside the alphabet is skipped, a '=' that completes the quantum
\* (quad_pos >= 2 and quad_pos + pads >= 4) ends the input, and input that
\* ends inside a quantum is an error.  Every data character before the end
\* contributes its six bits.
a2b_base64(data) ==
    LET n == Len(data)
        pad_positions == {i \in 1..n : data[i] = 61}
        End(sextets) ==
            LET QuadPos(i) == Cardinality({j \in 1..i : sextets[j] >= 0}) % 4
                Pads(i) == Cardinality({j \in pad_positions :
                                           j <= i /\ \A k \in j..i : sextets[k] < 0})
                Stops == {i \in pad_positions :
                             QuadPos(i) >= 2 /\ QuadPos(i) + Pads(i) >= 4}
            IN  IF Stops = {} THEN n + 1
                ELSE CHOOSE i \in Stops : \A j \in Stops : i <= j
        Bytes(sx, end) ==
            LET m == Len(sx)
                nbytes == 3 * (m \div 4) + (IF m % 4 = 0 THEN 0 ELSE (m % 4) - 1)
            IN  IF end = n + 1 /\ m % 4 # 0
                THEN Raise("binascii.Error")
                ELSE Ok([k \in 1..nbytes |->
                        LET g == 4 * ((k - 1) \div 3)
                            r == (k - 1) % 3
                        IN  IF r = 0 THEN sx[g + 1] * 4 + (sx[g + 2] \div 16)
                            ELSE IF r = 1
                            THEN (sx[g + 2] % 16) * 16 + (sx[g + 3] \div 4)
                            ELSE (sx[g + 3] % 4) * 64 + sx[g + 4]])
    IN  Let([i \in 1..n |-> B64Index(data[i])], LAMBDA sextets :
        Let(End(sextets), LAMBDA end :
        Let(SelectSeq([i \in 1..n |-> IF i < end THEN sextets[i] ELSE -1],
                      LAMBDA v : v >= 0), LAMBDA sx :
        Bytes(sx, end))))

\* base64.b64decode of a str: the str is first encoded as ASCII, which
\* raises ValueError on any other character.
b64decode(s) ==
    IF \E i \in 1..Len(s) : s[i] > 127
    THEN Raise("ValueError")
    ELSE a2b_base64(s)

\* bytes.decode('utf-8'), strict: the code points of a well-formed UTF-8
\* byte sequence, UnicodeDecodeError otherwise.  A byte sequence is well
\* formed when every byte that is not a continuation byte leads a sequence
\* of the length its value announces, and every continuation byte belongs
\* to one.
utf8_decode(b) ==
    LET n == Len(b)
        IsCont(i) == b[i] >= 128 /\ b[i] <= 191
        SeqLen(i) == IF b[i] < 128 THEN 1
                     ELSE IF b[i] >= 194 /\ b[i] <= 223 THEN 2
                     ELSE IF b[i] >= 224 /\ b[i] <= 239 THEN 3
                     ELSE IF b[i] >= 240 /\ b[i] <= 244 THEN 4
                     ELSE 0
        LeadOk(i) ==
            /\ SeqLen(i) >= 1
            /\ \A k \in 1..(SeqLen(i) - 1) : i + k <= n /\ IsCont(i + k)
            /\ (b[i] = 224 => b[i + 1] >= 160)
            /\ (b[i] = 237 => b[i + 1] <= 159)
            /\ (b[i] = 240 => b[i + 1] >= 144)
            /\ (b[i] = 244 => b[i + 1] <= 143)
        ContOk(i) ==
            \E k \in 1..3 : /\ i - k >= 1
                            /\ ~IsCont(i - k)
                            /\ SeqLen(i - k) > k
                            /\ \A j \in (i - k + 1)..(i - 1) : IsCont(j)
        leads == SelectSeq([i \in 1..n |-> IF IsCont(i) THEN 0 ELSE i], LAMBDA i : i > 0)
        low(i) == b[i] - 128
        CodePoint(i) ==
            IF SeqLen(i) = 1 THEN b[i]
            ELSE IF SeqLen(i) = 2 THEN (b[i] - 192) * 64 + low(i + 1)
            ELSE IF SeqLen(i) = 3
            THEN (b[i] - 224) * 4096 + low(i + 1) * 64 + low(i + 2)
            ELSE (b[i] - 240) * 262144 + low(i + 1) * 4096 + low(i + 2) * 64
                 + low(i + 3)
    IN  IF \A i \in 1..n : IF IsCont(i) THEN ContOk(i) ELSE LeadOk(i)
        THEN Let(leads, LAMBDA ld : Ok([k \in 1..Len(ld) |-> CodePoint(ld[k])]))
        ELSE Raise("UnicodeDecodeError")

\* ------------------------------------------------------------------------
\* String constants
\* ------------------------------------------------------------------------
\* 'dummy_client_12345'
DUMMY_CLIENT_ID ==
    <<100, 117, 109, 109, 121, 95, 99, 108, 105, 101, 110, 116, 95, 49, 50, 51,
      52, 53>>

\* 'dummy_secret_abcdef123456'
DUMMY_CLIENT_SECRET ==
    <<100, 117, 109, 109, 121, 95, 115, 101, 99, 114, 101, 116, 95, 97, 98, 99,
      100, 101, 102, 49, 50, 51, 52, 53, 54>>

\* 'Basic '
BasicPrefix == <<66, 97, 115, 105, 99, 32>>

\* 'application/x-www-form-urlencoded'
FORM ==
    <<97, 112, 112, 108, 105, 99, 97, 116, 105, 111, 110, 47, 120, 45, 119, 119,
      119, 45, 102, 111, 114, 109, 45, 117, 114, 108, 101, 110, 99, 111, 100,
      101, 100>>

\* 'application/json'
JSON ==
    <<97, 112, 112, 108, 105, 99, 97, 116, 105, 111, 110, 47, 106, 115, 111,
      110>>

\* 'multipart/form-data'
MULTIPART ==
    <<109, 117, 108, 116, 105, 112, 97, 114, 116, 47, 102, 111, 114, 109, 45,
      100, 97, 116, 97>>

\* 'application/' and '+json'
ApplicationSlash == <<97, 112, 112, 108, 105, 99, 97, 116, 105, 111, 110, 47>>
PlusJson == <<43, 106, 115, 111, 110>>

\* 'code', 'state', 'authorization_code'
CodeStr == <<99, 111, 100, 101>>
StateStr == <<115, 116, 97, 116, 101>>
AUTHORIZATION_CODE ==
    <<97, 117, 116, 104, 111, 114, 105, 122, 97, 116, 105, 111, 110, 95, 99,
      111, 100, 101>>

\* 'dummy_auth_code_12345'
auth_code ==
    <<100, 117, 109, 109, 121, 95, 97, 117, 116, 104, 95, 99, 111, 100, 101, 95,
      49, 50, 51, 52, 53>>

\* 'dummy_access_token_12345'
access_token ==
    <<100, 117, 109, 109, 121, 95, 97, 99, 99, 101, 115, 115, 95, 116, 111, 107,
      101, 110, 95, 49, 50, 51, 52, 53>>

\* 'dummy_refresh_token_12345'
refresh_token ==
    <<100, 117, 109, 109, 121, 95, 114, 101, 102, 114, 101, 115, 104, 95, 116,
      111, 107, 101, 110, 95, 49, 50, 51, 52, 53>>

\* 'http://localhost:3000/callback'
CALLBACK ==
    <<104, 116, 116, 112, 58, 47, 47, 108, 111, 99, 97, 108, 104, 111, 115, 116,
      58, 51, 48, 48, 48, 47, 99, 97, 108, 108, 98, 97, 99, 107>>

\* 'http://localhost:8080/callback'
CALLBACK_8080 ==
    <<104, 116, 116, 112, 58, 47, 47, 108, 111, 99, 97, 108, 104, 111, 115, 116,
      58, 56, 48, 56, 48, 47, 99, 97, 108, 108, 98, 97, 99, 107>>

\* the token lifetime in seconds
EXPIRES_IN == 3600

\* ------------------------------------------------------------------------
\* The Content-Type headers the clients send
\* ------------------------------------------------------------------------
\* 'application/x-www-form-urlencoded; charset=utf-8'
CT_form_charset ==
    <<97, 112, 112, 108, 105, 99, 97, 116, 105, 111, 110, 47, 120, 45, 119,
      119, 119, 45, 102, 111, 114, 109, 45, 117, 114, 108, 101, 110, 99, 111,
      100, 101, 100, 59, 32, 99, 104, 97, 114, 115, 101, 116, 61, 117, 116,
      102, 45, 56>>

\* 'text/plain'
CT_text ==
    <<116, 101, 120, 116, 47, 112, 108, 97, 105, 110>>

\* 'Application/JSON'
CT_upper_json ==
    <<65, 112, 112, 108, 105, 99, 97, 116, 105, 111, 110, 47, 74, 83, 79, 78>>

\* 'text/plain; x=application/json'
CT_param_json ==
    <<116, 101, 120, 116, 47, 112, 108, 97, 105, 110, 59, 32, 120, 61, 97,
      112, 112, 108, 105, 99, 97, 116, 105, 111, 110, 47, 106, 115, 111, 110>>

ContentTypes ==
    {None, FORM, CT_form_charset, JSON, CT_text, CT_upper_json, CT_param_json}

\* ------------------------------------------------------------------------
\* The request as Flask presents it
\* ------------------------------------------------------------------------
\* A request is a record
\*   [endpoint, auth, ctype, body, args, host]
\* auth and ctype are the raw Authorization and Content-Type header values
\* (None when the header is absent), args is the parsed query string, host
\* is request.host_url, and body is [kind, fields]:
\*   "form"     k=v&k=v text carrying `fields` (no fields: an empty body)
\*   "object"   the text of a JSON object carrying `fields`
\*   "array"    the JSON text [1]
\*   "null"     the JSON text null
\*   "garbage"  text that is neither JSON nor k=v pairs
NoRequest == [endpoint |-> "none"]
NoResponse == [status |-> 0]

\* json values: a dict, a non-empty list, None
PyDict(f) == [type |-> "dict", items |-> f]
PyList == [type |-> "list", items |-> EmptyDict]
PyNone == [type |-> "NoneType", items |-> EmptyDict]

\* bool(x) for a json value: None and {} are falsy, [1] is truthy
PyTruthy(x) == x.type = "list" \/ (x.type = "dict" /\ DOMAIN x.items # {})

\* str.lower() on ASCII, str.strip() of blanks
Lower(s) == [i \in 1..Len(s) |-> IF s[i] >= 65 /\ s[i] <= 90 THEN s[i] + 32 ELSE s[i]]
Strip(s) ==
    LET solid == {i \in 1..Len(s) : s[i] # 32 /\ s[i] # 9}
        first == CHOOSE i \in solid : \A j \in solid : i <= j
        last == CHOOSE i \in solid : \A j \in solid : j <= i
    IN  IF solid = {} THEN <<>> ELSE SubSeq(s, first, last)

\* request.headers.get('Content-Type', '')
ContentType(req) == IF req.ctype = None THEN <<>> ELSE req.ctype

\* werkzeug's mimetype of a Content-Type value: the value up to its first
\* ';', stripped and lower-cased
ParseMimetype(content_type) ==
    LET semi == Find(content_type, 59)
    IN  Lower(Strip(IF semi = 0 THEN content_type
                    ELSE SubSeq(content_type, 1, semi - 1)))

\* ParseMimetype of every Content-Type the clients send, computed once
MimetypeOf ==
    [ct \in ContentTypes |-> ParseMimetype(IF ct = None THEN <<>> ELSE ct)]

\* request.mimetype
Mimetype(req) == MimetypeOf[req.ctype]

\* request.is_json
is_json(req) ==
    LET mt == Mimetype(req)
    IN  mt = JSON \/ (StartsWith(mt, ApplicationSlash) /\ EndsWith(mt, PlusJson))

\* request.form: parsed only when the mimetype is a form mimetype; the
\* fields the handlers ask for exist only in a k=v body
Form(req) ==
    IF Mimetype(req) \in {FORM, MULTIPART} /\ req.body.kind = "form"
    THEN req.body.fields
    ELSE EmptyDict

\* json.loads of the body, as Flask wraps it: a body that is not JSON
\* raises BadRequest (on_json_loading_failed)
json_loads(body) ==
    IF body.kind = "object" THEN Ok(PyDict(body.fields))
    ELSE IF body.kind = "array" THEN Ok(PyList)
    ELSE IF body.kind = "null" THEN Ok(PyNone)
    ELSE Raise("BadRequest")

\* request.get_json() with its default arguments.  On a request whose
\* mimetype is not JSON, Flask before 2.1 returns None and Flask from 2.1
\* raises (BadRequest, UnsupportedMediaType from Werkzeug 2.3); the
\* repository pins no version, so the build decides (legacy_json).
get_json(req) ==
    IF ~is_json(req)
    THEN IF legacy_json THEN Ok(PyNone) ELSE Raise("UnsupportedMediaType")
    ELSE json_loads(req.body)

\* ------------------------------------------------------------------------
\* The Authorization headers the clients send
\* ------------------------------------------------------------------------
\* 'Basic ZHVtbXlfY2xpZW50XzEyMzQ1OmR1bW15X3NlY3JldF9hYmNkZWYxMjM0NTY=' (the dummy client's id and secret)
H_right ==
    <<66, 97, 115, 105, 99, 32, 90, 72, 86, 116, 98, 88, 108, 102, 89, 50,
      120, 112, 90, 87, 53, 48, 88, 122, 69, 121, 77, 122, 81, 49, 79, 109,
      82, 49, 98, 87, 49, 53, 88, 51, 78, 108, 89, 51, 74, 108, 100, 70, 57,
      104, 89, 109, 78, 107, 90, 87, 89, 120, 77, 106, 77, 48, 78, 84, 89, 61>>

\* 'Basic ZHVtbXlfY2xpZW50XzEyMzQ1Ondyb25n' (dummy_client_12345:wrong)
H_wrong_secret ==
    <<66, 97, 115, 105, 99, 32, 90, 72, 86, 116, 98, 88, 108, 102, 89, 50,
      120, 112, 90, 87, 53, 48, 88, 122, 69, 121, 77, 122, 81, 49, 79, 110,
      100, 121, 98, 50, 53, 110>>

\* 'Basic b3RoZXI6ZHVtbXlfc2VjcmV0X2FiY2RlZjEyMzQ1Ng==' (other:dummy_secret_abcdef123456)
H_wrong_id ==
    <<66, 97, 115, 105, 99, 32, 98, 51, 82, 111, 90, 88, 73, 54, 90, 72, 86,
      116, 98, 88, 108, 102, 99, 50, 86, 106, 99, 109, 86, 48, 88, 50, 70,
      105, 89, 50, 82, 108, 90, 106, 69, 121, 77, 122, 81, 49, 78, 103, 61, 61>>

\* 'Basic abcde' (five data characters: not base64)
H_bad_base64 ==
    <<66, 97, 115, 105, 99, 32, 97, 98, 99, 100, 101>>

\* 'Basic bm9jb2xvbg==' (nocolon)
H_no_colon ==
    <<66, 97, 115, 105, 99, 32, 98, 109, 57, 106, 98, 50, 120, 118, 98, 103,
      61, 61>>

\* 'Basic OmR1bW15X3NlY3JldF9hYmNkZWYxMjM0NTY=' (:dummy_secret_abcdef123456)
H_empty_id ==
    <<66, 97, 115, 105, 99, 32, 79, 109, 82, 49, 98, 87, 49, 53, 88, 51, 78,
      108, 89, 51, 74, 108, 100, 70, 57, 104, 89, 109, 78, 107, 90, 87, 89,
      120, 77, 106, 77, 48, 78, 84, 89, 61>>

\* 'Basic //46eA==' (the bytes FF FE 3A 78: not UTF-8)
H_bad_utf8 ==
    <<66, 97, 115, 105, 99, 32, 47, 47, 52, 54, 101, 65, 61, 61>>

\* 'Bearer abc' (another scheme)
H_bearer ==
    <<66, 101, 97, 114, 101, 114, 32, 97, 98, 99>>

AuthHeaders ==
    {None, H_bearer, H_right, H_wrong_secret, H_wrong_id, H_bad_base64,
     H_no_colon, H_empty_id, H_bad_utf8}

\* ------------------------------------------------------------------------
\* parse_client_credentials
\* ------------------------------------------------------------------------
\* Lines 41-47: the credentials of the Authorization header; any exception
\* of the try block leaves both None.
BasicCredentials(auth_header) ==
    LET Split(decoded_credentials) ==
            LET colon == Find(decoded_credentials, 58)
            IN  IF colon = 0
                THEN <<None, None>>
                ELSE <<SubSeq(decoded_credentials, 1, colon - 1),
                       SubSeq(decoded_credentials, colon + 1, Len(decoded_credentials))>>
        Decode(raw) ==
            IF raw.raised THEN <<None, None>>
            ELSE Let(utf8_decode(raw.value), LAMBDA text :
                     IF text.raised THEN <<None, None>> ELSE Split(text.value))
    IN  IF Truthy(auth_header) /\ StartsWith(auth_header, BasicPrefix)
        THEN Let(SubSeq(auth_header, 7, Len(auth_header)),
                 LAMBDA encoded_credentials :
                     Let(b64decode(encoded_credentials), Decode))
        ELSE <<None, None>>

\* BasicCredentials of every header the clients send, decoded once
HeaderCredentials == [h \in AuthHeaders |-> BasicCredentials(h)]

\* Lines 50-59: the fallback to the request body
BodyCredentials(header_pair, req) ==
    LET content_type == ContentType(req)
        json_data == IF is_json(req) THEN get_json(req) ELSE Ok(PyNone)
    IN  IF Contains(content_type, FORM)
        THEN Ok(<<Get(Form(req), "client_id"), Get(Form(req), "client_secret")>>)
        ELSE IF Contains(content_type, JSON)
        THEN IF json_data.raised THEN json_data
             ELSE IF PyTruthy(json_data.value)
             THEN IF json_data.value.type = "dict"
                  THEN Ok(<<Get(json_data.value.items, "client_id"),
                            Get(json_data.value.items, "client_secret")>>)
                  ELSE Raise("AttributeError")
             ELSE Ok(header_pair)
        ELSE Ok(header_pair)

\* A faulty parse_client_credentials: the body is consulted first, the
\* header only when the body yields no client id.
parse_client_credentials_BodyFirst(auth_header, req) ==
    LET body_pair == BodyCredentials(<<None, None>>, req)
    IN  IF ~body_pair.raised /\ Truthy(body_pair.value[1])
        THEN body_pair
        ELSE Ok(HeaderCredentials[auth_header])

\* The whole routine: Ok(<<client_id, client_secret>>), or the exception
\* that escapes it.
parse_client_credentials(auth_header, req) ==
    LET header_pair == HeaderCredentials[auth_header]
    IN  IF Truthy(header_pair[1])
        THEN Ok(header_pair)
        ELSE BodyCredentials(header_pair, req)

\* ------------------------------------------------------------------------
\* urllib.parse.urlencode
\* ------------------------------------------------------------------------
RECURSIVE Concat(_)
Concat(seqs) == IF seqs = <<>> THEN <<>> ELSE Head(seqs) \o Concat(Tail(seqs))

\* the upper-case hexadecimal digit of n, and '%XX' for a byte
Hex(n) == IF n < 10 THEN 48 + n ELSE 55 + n
PercentByte(b) == <<37, Hex(b \div 16), Hex(b % 16)>>

\* str.encode('utf-8') of one code point
utf8_encode(c) ==
    IF c < 128 THEN <<c>>
    ELSE IF c < 2048 THEN <<192 + (c \div 64), 128 + (c % 64)>>
    ELSE IF c < 65536
    THEN <<224 + (c \div 4096), 128 + ((c \div 64) % 64), 128 + (c % 64)>>
    ELSE <<240 + (c \div 262144), 128 + ((c \div 4096) % 64),
           128 + ((c \div 64) % 64), 128 + (c % 64)>>

\* the characters quote() never escapes: letters, digits, '_', '.', '-', '~'
AlwaysSafe(c) ==
    \/ c >= 65 /\ c <= 90
    \/ c >= 97 /\ c <= 122
    \/ c >= 48 /\ c <= 57
    \/ c \in {95, 46, 45, 126}

\* quote_plus of one character: kept, ' ' to '+', or the '%XX' of each of
\* its UTF-8 bytes
QuoteChar(c) ==
    IF AlwaysSafe(c) THEN <<c>>
    ELSE IF c = 32 THEN <<43>>
    ELSE LET bytes == utf8_encode(c)
         IN  Concat([i \in 1..Len(bytes) |-> PercentByte(bytes[i])])

quote_plus(s) == Concat([i \in 1..Len(s) |-> QuoteChar(s[i])])

\* urlencode of a dict given as the sequence of its <<key, value>> items,
\* in insertion order: 'k=v' joined by '&'
RECURSIVE urlencode(_)
urlencode(params) ==
    IF params = <<>> THEN <<>>
    ELSE LET item == quote_plus(Head(params)[1]) \o <<61>> \o quote_plus(Head(params)[2])
         IN  IF Tail(params) = <<>> THEN item
             ELSE item \o <<38>> \o urlencode(Tail(params))

\* ------------------------------------------------------------------------
\* Responses
\* ------------------------------------------------------------------------
\* jsonify(payload), status
jsonify(payload, status) == [status |-> status, json |-> payload, location |-> None]

\* flask.redirect(location): 302 with the Location header
redirect(location) == [status |-> 302, json |-> EmptyDict, location |-> location]

\* ------------------------------------------------------------------------
\* /register
\* ------------------------------------------------------------------------
dummy_config ==
    [client_id |-> DUMMY_CLIENT_ID,
     client_secret |-> DUMMY_CLIENT_SECRET,
     client_id_issued_at |-> now,
     client_secret_expires_at |-> 0,
     redirect_uris |-> <<CALLBACK, CALLBACK_8080>>,
     token_endpoint_auth_method |-> "client_secret_basic",
     grant_types |-> <<"authorization_code">>,
     response_types |-> <<"code">>,
     client_name |-> "Dummy OAuth Client",
     client_uri |-> "http://localhost:3000",
     scope |-> "read write admin"]

\* A faulty register: the body is never parsed, every call succeeds.
register_IgnoresBody(req) == jsonify(dummy_config, 200)

register(req) ==
    LET data == get_json(req)
    IN  IF data.raised
        THEN jsonify([error |-> "invalid_request", error_description |-> data.exc], 400)
        ELSE jsonify(dummy_config, 200)

\* ------------------------------------------------------------------------
\* /.well-known/oauth-authorization-server
\* ------------------------------------------------------------------------
\* '/authorize', '/token', '/register'
PathAuthorize == <<47, 97, 117, 116, 104, 111, 114, 105, 122, 101>>
PathToken == <<47, 116, 111, 107, 101, 110>>
PathRegister == <<47, 114, 101, 103, 105, 115, 116, 101, 114>>

\* str.rstrip('/')
RECURSIVE RStripSlash(_)
RStripSlash(s) ==
    IF s # <<>> /\ s[Len(s)] = 47 THEN RStripSlash(SubSeq(s, 1, Len(s) - 1)) ELSE s

well_known_oauth(req) ==
    LET base_url == RStripSlash(req.host)
    IN  jsonify([issuer |-> base_url,
                 authorization_endpoint |-> base_url \o PathAuthorize,
                 token_endpoint |-> base_url \o PathToken,
                 registration_endpoint |-> base_url \o PathRegister,
                 response_types_supported |-> <<"code">>,
                 grant_types_supported |-> <<"authorization_code">>,
                 token_endpoint_auth_methods_supported |-> <<"client_secret_basic">>,
                 scopes_supported |-> <<"read", "write", "admin">>,
                 code_challenge_methods_supported |-> <<"S256", "plain">>], 200)

\* ------------------------------------------------------------------------
\* /authorize
\* ------------------------------------------------------------------------
\* A faulty AuthorizeRedirect: the state is appended without urlencode.
AuthorizeRedirect_Verbatim(redirect_uri, state) ==
    redirect(redirect_uri \o <<63>> \o CodeStr \o <<61>> \o auth_code
             \o (IF Truthy(state) THEN <<38>> \o StateStr \o <<61>> \o state ELSE <<>>))

\* Lines 155-165: the redirect carrying the code, and the state when truthy
AuthorizeRedirect(redirect_uri, state) ==
    LET params == IF Truthy(state)
                  THEN <<<<CodeStr, auth_code>>, <<StateStr, state>>>>
                  ELSE <<<<CodeStr, auth_code>>>>
        redirect_url == redirect_uri \o <<63>> \o urlencode(params)
    IN  redirect(redirect_url)

\* Line 147: a required parameter is missing
MissingRequired(client_id, redirect_uri) == ~Truthy(client_id) \/ ~Truthy(redirect_uri)

\* A faulty authorize: the response type is checked before the required
\* parameters.
authorize_TypeFirst(req) ==
    LET args == req.args
        form == Form(req)
        client_id == Or(Get(args, "client_id"), Get(form, "client_id"))
        redirect_uri == Or(Get(args, "redirect_uri"), Get(form, "redirect_uri"))
        response_type == Or(Get(args, "response_type"),
                            GetDefault(form, "response_type", CodeStr))
        state == Or(Get(args, "state"), Get(form, "state"))
    IN  IF response_type # CodeStr
        THEN jsonify([error |-> "unsupported_response_type"], 400)
        ELSE IF MissingRequired(client_id, redirect_uri)
        THEN jsonify([error |-> "invalid_request",
                      error_description |-> "Missing required parameters"], 400)
        ELSE AuthorizeRedirect(redirect_uri, state)

authorize(req) ==
    LET args == req.args
        form == Form(req)
        client_id == Or(Get(args, "client_id"), Get(form, "client_id"))
        redirect_uri == Or(Get(args, "redirect_uri"), Get(form, "redirect_uri"))
        response_type == Or(Get(args, "response_type"),
                            GetDefault(form, "response_type", CodeStr))
        state == Or(Get(args, "state"), Get(form, "state"))
    IN  IF MissingRequired(client_id, redirect_uri)
        THEN jsonify([error |-> "invalid_request",
                      error_description |-> "Missing required parameters"], 400)
        ELSE IF response_type # CodeStr
        THEN jsonify([error |-> "unsupported_response_type"], 400)
        ELSE AuthorizeRedirect(redirect_uri, state)

\* ------------------------------------------------------------------------
\* /token
\* ------------------------------------------------------------------------
token_response ==
    [access_token |-> access_token,
     token_type |-> "Bearer",
     expires_in |-> EXPIRES_IN,
     refresh_token |-> refresh_token,
     scope |-> "read write"]

\* the except clause of the handler: 500 server_error
server_error(exc) ==
    jsonify([error |-> "server_error", error_description |-> exc], 500)

\* A faulty InvalidCredentials: only the client id is compared.
InvalidCredentials_IdOnly(client_id, client_secret) ==
    client_id # DUMMY_CLIENT_ID

\* Line 184: the credentials are not the dummy client's
InvalidCredentials(client_id, client_secret) ==
    client_id # DUMMY_CLIENT_ID \/ client_secret # DUMMY_CLIENT_SECRET

\* Lines 195-201: request.get_json() or {}, {} when get_json raises
TokenJsonData(req) ==
    LET data == get_json(req)
    IN  IF data.raised THEN PyDict(EmptyDict)
        ELSE IF PyTruthy(data.value) THEN data.value
        ELSE PyDict(EmptyDict)

\* A faulty TokenGrant: the authorization code is required.
TokenGrant_RequiresCode(request_data) ==
    IF request_data.type # "dict"
    THEN server_error("AttributeError")
    ELSE IF Get(request_data.items, "grant_type") # AUTHORIZATION_CODE
    THEN jsonify([error |-> "unsupported_grant_type"], 400)
    ELSE IF ~Truthy(Get(request_data.items, "code"))
    THEN jsonify([error |-> "invalid_grant"], 400)
    ELSE jsonify(token_response, 200)

\* A faulty TokenGrant: every grant type that is present is accepted.
TokenGrant_AnyGrant(request_data) ==
    IF request_data.type # "dict"
    THEN server_error("AttributeError")
    ELSE IF Get(request_data.items, "grant_type") = None
    THEN jsonify([error |-> "unsupported_grant_type"], 400)
    ELSE jsonify(token_response, 200)

\* Lines 215-248: the grant type check and the token response;
\* request_data.get raises AttributeError when the JSON body is not an object
TokenGrant(request_data) ==
    IF request_data.type # "dict"
    THEN server_error("AttributeError")
    ELSE LET grant_type == Get(request_data.items, "grant_type")
         IN  IF grant_type # AUTHORIZATION_CODE
             THEN jsonify([error |-> "unsupported_grant_type"], 400)
             ELSE jsonify(token_response, 200)

\* A faulty TokenBody: a content type that is neither form nor JSON is read
\* as an empty parameter set.
TokenBody_NoContentTypeCheck(req) ==
    IF Contains(ContentType(req), FORM)
    THEN TokenGrant(PyDict(Form(req)))
    ELSE IF Contains(ContentType(req), JSON)
    THEN TokenGrant(TokenJsonData(req))
    ELSE TokenGrant(PyDict(EmptyDict))

\* Lines 188-204: the request data by content type
TokenBody(req) ==
    LET content_type == ContentType(req)
    IN  IF Contains(content_type, FORM)
        THEN TokenGrant(PyDict(Form(req)))
        ELSE IF Contains(content_type, JSON)
        THEN TokenGrant(TokenJsonData(req))
        ELSE jsonify([error |-> "invalid_request",
                      error_description |-> "Unsupported content type"], 400)

token(req) ==
    LET auth_header == req.auth
        creds == parse_client_credentials(auth_header, req)
    IN  IF creds.raised
        THEN server_error(creds.exc)
        ELSE IF InvalidCredentials(creds.value[1], creds.value[2])
        THEN jsonify([error |-> "invalid client credentials"], 401)
        ELSE TokenBody(req)

\* ------------------------------------------------------------------------
\* The requests the clients send
\* ------------------------------------------------------------------------
\* 'wrong'
V_wrong ==
    <<119, 114, 111, 110, 103>>

\* 'other'
V_other ==
    <<111, 116, 104, 101, 114>>

\* 'refresh_token'
V_refresh_token ==
    <<114, 101, 102, 114, 101, 115, 104, 95, 116, 111, 107, 101, 110>>

\* 'token'
V_token ==
    <<116, 111, 107, 101, 110>>

\* 'anything'
V_anything ==
    <<97, 110, 121, 116, 104, 105, 110, 103>>

\* 'http://x'
V_http_x ==
    <<104, 116, 116, 112, 58, 47, 47, 120>>

\* 'verifier'
V_verifier ==
    <<118, 101, 114, 105, 102, 105, 101, 114>>

\* 'http://evil.example/cb'
V_evil ==
    <<104, 116, 116, 112, 58, 47, 47, 101, 118, 105, 108, 46, 101, 120, 97,
      109, 112, 108, 101, 47, 99, 98>>

\* 'f'
V_f ==
    <<102>>

\* 'http://localhost:8081/'
Host_localhost ==
    <<104, 116, 116, 112, 58, 47, 47, 108, 111, 99, 97, 108, 104, 111, 115,
      116, 58, 56, 48, 56, 49, 47>>

\* 'http://host:8081/'
Host_host ==
    <<104, 116, 116, 112, 58, 47, 47, 104, 111, 115, 116, 58, 56, 48, 56, 49,
      47>>

\* the fields of a token request body: credentials, grant type, and the
\* parameters of the code exchange
CredentialFields ==
    {EmptyDict,
     [client_id |-> DUMMY_CLIENT_ID, client_secret |-> DUMMY_CLIENT_SECRET],
     [client_id |-> DUMMY_CLIENT_ID, client_secret |-> V_wrong]}

GrantTypes ==
    {EmptyDict,
     [grant_type |-> AUTHORIZATION_CODE],
     [grant_type |-> V_refresh_token],
     [grant_type |-> <<>>]}

ExchangeParams ==
    [code |-> V_anything, redirect_uri |-> V_http_x, code_verifier |-> V_verifier]

Restrict(d, keys) == [k \in keys |-> d[k]]

Bodies ==
    {[kind |-> kind, fields |-> c @@ g @@ Restrict(ExchangeParams, keys)] :
        kind \in {"form", "object"}, c \in CredentialFields, g \in GrantTypes,
        keys \in {{}, {"code", "redirect_uri"}, DOMAIN ExchangeParams}}
    \cup {[kind |-> kind, fields |-> EmptyDict] : kind \in {"array", "null", "garbage"}}

TokenRequests ==
    {[endpoint |-> "token", auth |-> h, ctype |-> ct, body |-> b,
      args |-> EmptyDict, host |-> Host_localhost] :
        h \in AuthHeaders, ct \in ContentTypes, b \in Bodies}

RegisterRequests ==
    {[endpoint |-> "register", auth |-> None, ctype |-> ct, body |-> b,
      args |-> EmptyDict, host |-> Host_localhost] :
        ct \in ContentTypes, b \in Bodies}

WellKnownRequests ==
    {[endpoint |-> "well_known", auth |-> None, ctype |-> None,
      body |-> [kind |-> "form", fields |-> EmptyDict],
      args |-> EmptyDict, host |-> h] : h \in {Host_localhost, Host_host}}

\* the state values: every string over StateAlphabet of at most MaxStateLen
\* characters ('a', ' ', '&', U+00E9)
StateAlphabet == {97, 32, 38, 233}
StateValues == UNION {[1..n -> StateAlphabet] : n \in 0..MaxStateLen}

\* an optional parameter: absent, or one of the values
Optional(key, values) == {EmptyDict} \cup {[k \in {key} |-> v] : v \in values}

\* the form body of an /authorize POST that carries every parameter
AuthorizeForm ==
    [client_id |-> DUMMY_CLIENT_ID, redirect_uri |-> CALLBACK,
     response_type |-> V_token, state |-> V_f]

AuthorizeRequests ==
    {[endpoint |-> "authorize", auth |-> None,
      ctype |-> IF f = EmptyDict THEN None ELSE FORM,
      body |-> [kind |-> "form", fields |-> f],
      args |-> c @@ r @@ t @@ s, host |-> Host_localhost] :
        c \in Optional("client_id", {DUMMY_CLIENT_ID, V_other}),
        r \in Optional("redirect_uri", {CALLBACK, V_evil}),
        t \in Optional("response_type", {CodeStr, V_token}),
        s \in Optional("state", StateValues),
        f \in {EmptyDict, AuthorizeForm}}

Requests == RegisterRequests \cup WellKnownRequests \cup AuthorizeRequests \cup TokenRequests

\* ------------------------------------------------------------------------
\* The server
\* ------------------------------------------------------------------------
Init ==
    /\ request = NoRequest
    /\ response = NoResponse
    /\ now = 0
    /\ legacy_json \in BOOLEAN
    /\ called = {}
    /\ first_register = NoResponse

\* A client sends a request; Flask routes it to its handler.
Receive ==
    /\ request = NoRequest
    /\ \E r \in Requests : request' = r
    /\ UNCHANGED <<response, now, legacy_json, called, first_register>>

Register ==
    /\ request.endpoint = "register"
    /\ response = NoResponse
    /\ response' = register(request)
    /\ called' = called \cup {"register"}
    /\ first_register' = IF first_register = NoResponse THEN response' ELSE first_register
    /\ UNCHANGED <<request, now, legacy_json>>

WellKnown ==
    /\ request.endpoint = "well_known"
    /\ response = NoResponse
    /\ response' = well_known_oauth(request)
    /\ UNCHANGED <<request, now, legacy_json, called, first_register>>

Authorize ==
    /\ request.endpoint = "authorize"
    /\ response = NoResponse
    /\ response' = authorize(request)
    /\ called' = called \cup {"authorize"}
    /\ UNCHANGED <<request, now, legacy_json, first_register>>

Token ==
    /\ request.endpoint = "token"
    /\ response = NoResponse
    /\ response' = token(request)
    /\ UNCHANGED <<request, now, legacy_json, called, first_register>>

\* The response is sent and the request is over.
Deliver ==
    /\ response # NoResponse
    /\ request' = NoRequest
    /\ response' = NoResponse
    /\ UNCHANGED <<now, legacy_json, called, first_register>>

\* A second passes.  The clock is read only inside register, so time that
\* passes while a request is being served is time that passes before it.
Tick ==
    /\ request = NoRequest
    /\ now < MaxClock
    /\ now' = now + 1
    /\ UNCHANGED <<request, response, legacy_json, called, first_register>>

Next == Receive \/ Register \/ WellKnown \/ Authorize \/ Token \/ Deliver \/ Tick

Spec == Init /\ [][Next]_vars
\* ------------------------------------------------------------------------
\* Vocabulary of the properties
\* ------------------------------------------------------------------------
\* the handler of `endpoint` has answered the request in flight
Served(endpoint) == request.endpoint = endpoint /\ response # NoResponse

\* the error code of a response, "none" when it carries none
ErrorCode(resp) == IF "error" \in DOMAIN resp.json THEN resp.json.error ELSE "none"

\* what parse_client_credentials yields for the request in flight
Extracted == parse_client_credentials(request.auth, request)

\* the extraction returned the dummy client's id and secret
PassesCredentialCheck ==
    /\ ~Extracted.raised
    /\ Extracted.value = <<DUMMY_CLIENT_ID, DUMMY_CLIENT_SECRET>>

\* the 401 of the credential comparison
InvalidCredentialsResponse == jsonify([error |-> "invalid client credentials"], 401)

\* the Content-Type names neither form encoding nor JSON
NeitherFormNorJson(req) ==
    ~Contains(ContentType(req), FORM) /\ ~Contains(ContentType(req), JSON)

\* the grant_type field of the request body, None when the body has none
GrantTypeOf(req) ==
    IF req.body.kind \in {"form", "object"}
    THEN Get(req.body.fields, "grant_type")
    ELSE None

\* the body is read as JSON and is a JSON value other than an object or null
JsonNonObject(req) ==
    ~Contains(ContentType(req), FORM) /\ is_json(req) /\ req.body.kind = "array"

\* a parameter of an /authorize request: the query string, then the form
Param(req, key) == Or(Get(req.args, key), Get(Form(req), key))
ResponseTypeOf(req) ==
    Or(Get(req.args, "response_type"), GetDefault(Form(req), "response_type", CodeStr))

\* 'http://localhost:3000/callback?code=dummy_auth_code_12345'
CallbackWithCode ==
    <<104, 116, 116, 112, 58, 47, 47, 108, 111, 99, 97, 108, 104, 111, 115, 116,
      58, 51, 48, 48, 48, 47, 99, 97, 108, 108, 98, 97, 99, 107, 63, 99, 111,
      100, 101, 61, 100, 117, 109, 109, 121, 95, 97, 117, 116, 104, 95, 99, 111,
      100, 101, 95, 49, 50, 51, 52, 53>>

\* '&state='
AmpState == <<38, 115, 116, 97, 116, 101, 61>>

\* the application/x-www-form-urlencoded form of the characters a state
\* is made of: ' ' is '+', '&' is '%26', U+00E9 is '%C3%A9', letters stay
FormEncoded(s) ==
    Concat([i \in 1..Len(s) |->
               IF s[i] = 32 THEN <<43>>
               ELSE IF s[i] = 38 THEN <<37, 50, 54>>
               ELSE IF s[i] = 233 THEN <<37, 67, 51, 37, 65, 57>>
               ELSE <<s[i]>>])

\* the Authorization headers that are well-formed Basic headers with a
\* non-empty id, and the id and secret each carries
WellFormedBasic == {H_right, H_wrong_secret, H_wrong_id}
CarriedPair(h) ==
    IF h = H_right THEN <<DUMMY_CLIENT_ID, DUMMY_CLIENT_SECRET>>
    ELSE IF h = H_wrong_secret THEN <<DUMMY_CLIENT_ID, V_wrong>>
    ELSE <<V_other, DUMMY_CLIENT_SECRET>>

\* the Basic headers that are malformed: invalid base64, no colon
MalformedBasic == {H_bad_base64, H_no_colon}

\* the body carries the dummy client's id and secret / carries no credentials
BodyCarriesDummyClient(req) ==
    /\ req.body.kind \in {"form", "object"}
    /\ Get(req.body.fields, "client_id") = DUMMY_CLIENT_ID
    /\ Get(req.body.fields, "client_secret") = DUMMY_CLIENT_SECRET
BodyCarriesNoCredentials(req) ==
    /\ "client_id" \notin DOMAIN req.body.fields
    /\ "client_secret" \notin DOMAIN req.body.fields

\* the body is declared in the encoding it is written in
DeclaredAsWritten(req) ==
    \/ req.body.kind = "form" /\ Contains(ContentType(req), FORM) /\ Mimetype(req) = FORM
    \/ /\ req.body.kind \in {"object", "array", "null"}
       /\ ~Contains(ContentType(req), FORM)
       /\ Contains(ContentType(req), JSON)
       /\ is_json(req)

\* a registration response without its issuance timestamp
Untimed(resp) ==
    IF resp.status = 200 THEN [resp EXCEPT !.json.client_id_issued_at = 0] ELSE resp

C2_TokenIssued ==
    /\ Served("token")
    /\ request.auth = H_right
    /\ request.body.kind = "form"
    /\ DeclaredAsWritten(request)
    /\ GrantTypeOf(request) = AUTHORIZATION_CODE
    => /\ response.status = 200
       /\ response.json = [access_token |-> access_token,
                           token_type |-> "Bearer",
                           expires_in |-> EXPIRES_IN,
                           refresh_token |-> refresh_token,
                           scope |-> "read write"]

\* tokens have been issued for a request with no code, redirect_uri or
\* code_verifier, with /register and /authorize never called
C2_Witness ==
    /\ Served("token")
    /\ request.auth = H_right
    /\ request.ctype = FORM
    /\ request.body.kind = "form"
    /\ DOMAIN request.body.fields = {"grant_type"}
    /\ GrantTypeOf(request) = AUTHORIZATION_CODE
    /\ called = {}
    /\ first_register = NoResponse
    /\ response.status = 200

\* ------------------------------------------------------------------------
\* C3
\* ------------------------------------------------------------------------
\* C3 as stated: every /token request whose Content-Type names neither form
\* encoding nor JSON is answered 400 invalid_request.
C3_AsStated ==
    Served("token") /\ NeitherFormNorJson(request)
    => response.status = 400 /\ ErrorCode(response) = "invalid_request"

\* C3 amended: a /token request whose Content-Type names neither form
\* encoding nor JSON is answered 400 invalid_request when its credentials
\* pass the credential check and 401 otherwise; it is never answered
\* unsupported_grant_type or 200.
C3_UnsupportedContentType ==
    Served("token") /\ NeitherFormNorJson(request)
    => /\ ~Extracted.raised
       /\ IF PassesCredentialCheck
          THEN response.status = 400 /\ ErrorCode(response) = "invalid_request"
          ELSE response = InvalidCredentialsResponse
       /\ ErrorCode(response) # "unsupported_grant_type"
       /\ response.status # 200

\* a text/plain request with valid credentials and a valid grant type has
\* been answered invalid_request
C3_Witness ==
    /\ Served("token")
    /\ request.auth = H_right
    /\ request.ctype = CT_text
    /\ GrantTypeOf(request) = AUTHORIZATION_CODE
    /\ response.status = 400
    /\ ErrorCode(response) = "invalid_request"

C5_AsStated ==
    /\ Served("authorize")
    /\ Truthy(Param(request, "client_id"))
    /\ Param(request, "redirect_uri") = CALLBACK
    => /\ response.status = 302
       /\ response.location =
              CallbackWithCode \o
                  (IF Param(request, "state") # None
                   THEN AmpState \o Param(request, "state")
                   ELSE <<>>)

\* C5 amended: an /authorize request with a client id, the callback
\* redirect URI and response type code (or none) is redirected to the
\* callback with the code, followed by the state in form-urlencoded form
\* when a non-empty state is supplied, and by nothing otherwise.
C5_RedirectTarget ==
    /\ Served("authorize")
    /\ Truthy(Param(request, "client_id"))
    /\ Param(request, "redirect_uri") = CALLBACK
    /\ ResponseTypeOf(request) = CodeStr
    => /\ response.status = 302
       /\ response.location =
              CallbackWithCode \o
                  (IF Truthy(Param(request, "state"))
                   THEN AmpState \o FormEncoded(Param(request, "state"))
                   ELSE <<>>)

\* a state that urlencode rewrites has been echoed
C5_Witness ==
    /\ Served("authorize")
    /\ Get(request.args, "redirect_uri") = CALLBACK
    /\ Get(request.args, "state") = <<233>>
    /\ response.status = 302
    /\ response.location = CallbackWithCode \o AmpState \o <<37, 67, 51, 37, 65, 57>>

\* ------------------------------------------------------------------------
\* C6
\* ------------------------------------------------------------------------
\* C6: /authorize answers 400 invalid_request when client_id or
\* redirect_uri is missing, whatever the other parameters; otherwise 400
\* unsupported_response_type when the response type (code when omitted) is
\* not code; otherwise 302, whatever the client id and redirect URI are.
C6_AuthorizeChecks ==
    Served("authorize")
    => IF ~Truthy(Param(request, "client_id")) \/ ~Truthy(Param(request, "redirect_uri"))
       THEN response.status = 400 /\ ErrorCode(response) = "invalid_request"
       ELSE IF ResponseTypeOf(request) # CodeStr
       THEN response.status = 400 /\ ErrorCode(response) = "unsupported_response_type"
       ELSE response.status = 302

\* a request with no redirect URI and response type token has been answered
\* invalid_request
C6_Witness ==
    /\ Served("authorize")
    /\ Get(request.args, "client_id") = V_other
    /\ Param(request, "redirect_uri") = None
    /\ Get(request.args, "response_type") = V_token
    /\ response.status = 400
    /\ ErrorCode(response) = "invalid_request"

\* ------------------------------------------------------------------------
\* C7
\* ------------------------------------------------------------------------
\* C7 as stated: every /register call is answered 200 with the dummy client
\* id, and with the response the first call was given.
C7_AsStated ==
    Served("register")
    => /\ response.status = 200
       /\ response.json.client_id = DUMMY_CLIENT_ID
       /\ response = first_register

\* C7 amended: a /register call whose body is declared as JSON and parses
\* is answered 200 with the dummy client id; one whose body is declared as
\* JSON and does not parse (an empty body included) is answered 400
\* invalid_request; one whose body is not declared as JSON is answered 200
\* by Flask before 2.1 and 400 invalid_request from 2.1.  Every 200 answer
\* carries the current time as client_id_issued_at and is otherwise the
\* same as every other, whatever the body and whatever was served before.
C7_RegisterStable ==
    Served("register")
    => IF IF is_json(request)
          THEN request.body.kind \in {"object", "array", "null"}
          ELSE legacy_json
       THEN /\ response.status = 200
            /\ response.json.client_id = DUMMY_CLIENT_ID
            /\ response.json.client_id_issued_at = now
            /\ (first_register.status = 200
                => Untimed(response) = Untimed(first_register))
       ELSE response.status = 400 /\ ErrorCode(response) = "invalid_request"

\* a body declared as JSON that cannot be parsed has been answered 400
C7_Witness ==
    /\ Served("register")
    /\ request.ctype = JSON
    /\ request.body.kind = "garbage"
    /\ response.status = 400
    /\ ErrorCode(response) = "invalid_request"

\* ------------------------------------------------------------------------
\* C8
\* ------------------------------------------------------------------------
\* C8: for a /token request whose Authorization header is a well-formed
\* Basic header with a non-empty id, parse_client_credentials returns the
\* id and secret of the header, whatever the body carries; when they are
\* not the dummy client's the request is answered 401.
C8_HeaderFirst ==
    request.endpoint = "token" /\ request.auth \in WellFormedBasic
    => /\ Extracted = Ok(CarriedPair(request.auth))
       /\ (response # NoResponse /\ request.auth # H_right
           => response = InvalidCredentialsResponse)

\* a header with a wrong secret has been rejected although the form body
\* carries the dummy client's id and secret
C8_Witness ==
    /\ Served("token")
    /\ request.auth = H_wrong_secret
    /\ request.ctype = FORM
    /\ BodyCarriesDummyClient(request)
    /\ request.body.kind = "form"
    /\ response = InvalidCredentialsResponse

\* ------------------------------------------------------------------------
\* C9
\* ------------------------------------------------------------------------
\* C9: parse_client_credentials raises for no /token request, and no /token
\* request whose credentials do not pass is answered 500 server_error.
C9_NeverRaises ==
    request.endpoint = "token"
    => /\ ~Extracted.raised
       /\ (response # NoResponse /\ ~PassesCredentialCheck
           => response = InvalidCredentialsResponse)

\* ------------------------------------------------------------------------
\* C10
\* ------------------------------------------------------------------------
\* C10: a /token request with a malformed Basic header is answered as the
\* same request without the header is: 200 when the body carries the dummy
\* client's id and secret and grant_type authorization_code, 401 when the
\* body carries no credentials.
C10_MalformedHeaderFallsThrough ==
    Served("token") /\ request.auth \in MalformedBasic
    => /\ response = token([request EXCEPT !.auth = None])
       /\ (/\ BodyCarriesDummyClient(request)
           /\ DeclaredAsWritten(request)
           /\ GrantTypeOf(request) = AUTHORIZATION_CODE
           => response.status = 200)
       /\ (BodyCarriesNoCredentials(request)
           => response = InvalidCredentialsResponse)
====
